---- MODULE Spec2Model ----
(***************************************************************************)
(* Model of gdi/imp_layers.py: the two Caffe python data layers            *)
(* GDIDataLayerImp and GDIValDataLayer.  Both classes have the same        *)
(* handlers (setup, reshape, forward, backward, load_image, load_label)    *)
(* and differ only in the directory names they read; both draw from the    *)
(* module-level generator of Python's `random`, which is one state shared  *)
(* by every layer instance of the process.                                 *)
(*                                                                         *)
(* Strings that the code inspects (the split name, the manifest content,   *)
(* the sample identifiers) are sequences of one-character strings.         *)
(***************************************************************************)
EXTENDS Integers, Sequences, FiniteSets, TLC

VARIABLES layer, rng, manifest, px, binarize, lab

vars == <<layer, rng, manifest, px, binarize, lab>>

(* ----------------------------- bounds ---------------------------------- *)

\* longest manifest file content, in characters
MaxManifestLen == 4
\* integer seeds are 1..MaxSeed
MaxSeed == 2
\* number of states of the pseudo-random generator
RngMod == 8
\* a layer's forward succeeds at most MaxSteps times
MaxSteps == 4
\* the caller declares 0..MaxTops output blobs and 0..MaxBottoms input blobs
MaxTops == 3
MaxBottoms == 1

(* ------------------------ program constants ---------------------------- *)

\* the largest value of an unsigned 8-bit label pixel
MaxPixel == 255

(* ----------------------------- values ---------------------------------- *)

Layers == {"GDIDataLayerImp", "GDIValDataLayer"}

NL == "\n"
ManifestChars == {"a", NL}

RECURSIVE StringsUpTo(_)
StringsUpTo(n) ==
    IF n = 0 THEN {<<>>}
    ELSE LET shorter == StringsUpTo(n - 1)
         IN  shorter \cup {Append(s, c) : s \in {t \in shorter : Len(t) = n - 1},
                                          c \in ManifestChars}

\* what open(split_f, 'r') finds: no file, or a file with some content
NoFile == [exists |-> FALSE, content |-> <<>>]
ManifestFiles ==
    {NoFile} \cup {[exists |-> TRUE, content |-> s] : s \in StringsUpTo(MaxManifestLen)}

Train == <<"t", "r", "a", "i", "n">>
Splits == {Train, <<"v", "a", "l", "i", "d">>, <<"t", "r", "a", "i", "n", "2">>}

\* the `randomize` entry of param_str: True, False or not given
RandomizeOpts == {"True", "False", "absent"}

\* the `seed` entry of param_str: an integer, or None (also when not given)
None == 0 - 1
Seeds == 1..MaxSeed
SeedOpts == Seeds \cup {None}

RngStates == 0..(RngMod - 1)

\* self.idx before setup has assigned it
NoAttr == 0 - 1

\* an array attribute (self.data, self.label) that is not set yet
NoArray == [set |-> FALSE, id |-> <<>>, shape |-> <<>>]

\* The dataset: the files of one sample have one height and width (the image
\* and its importance map show the same design), and samples differ in size.
SampleSize(stem) == <<2 + (Len(stem) % 2), 2>>

\* what Image.open finds at a path: no (readable) file, or an image with a
\* number of channels (1: mode L, 3: mode RGB, 4: mode CMYK / RGBA)
NoImage == [exists |-> FALSE, channels |-> 0]
ImageFiles == {NoImage} \cup {[exists |-> TRUE, channels |-> c] : c \in {1, 3, 4}}
LabelFiles == {NoImage} \cup {[exists |-> TRUE, channels |-> c] : c \in {1, 3}}

\* the content of a top blob that nothing was written to
NoBlob == [written |-> FALSE, id |-> <<>>]

\* A layer instance.  pc: "new" before setup, then "ready" (setup returned) or
\* "failed" (setup raised err).  ntop, nbottom: the blobs the caller declared.
\* opened: setup has opened the manifest.  split, random, seed, indices, idx,
\* data, label: the attributes of the same names.  top: the shapes announced
\* for the two top blobs; out: the sample each top blob's content was written
\* from.  nfwd: the forward calls that returned; ndraw: the random draws made.
NewLayer ==
    [pc |-> "new", err |-> "", ntop |-> 0, nbottom |-> 0, opened |-> FALSE,
     split |-> <<>>, random |-> FALSE, seed |-> None,
     indices |-> <<>>, idx |-> NoAttr, data |-> NoArray, label |-> NoArray,
     top |-> <<<<>>, <<>>>>, out |-> <<NoBlob, NoBlob>>, nfwd |-> 0, ndraw |-> 0]

(* ------------------------ library operations --------------------------- *)

\* params.get('randomize', True)
ParamsGet(opt, default) ==
    IF opt = "absent" THEN default ELSE opt = "True"

\* Python's `sub in s` on strings
Contains(s, sub) ==
    \E i \in 0..(Len(s) - Len(sub)) : SubSeq(s, i + 1, i + Len(sub)) = sub

\* str.splitlines(): the text is cut at every line break; a line break at the
\* very end of the text does not start a further (empty) line
RECURSIVE SplitFrom(_, _, _)
SplitFrom(s, i, cur) ==
    IF i > Len(s) THEN (IF cur = <<>> THEN <<>> ELSE <<cur>>)
    ELSE IF s[i] = NL THEN <<cur>> \o SplitFrom(s, i + 1, <<>>)
    ELSE SplitFrom(s, i + 1, Append(cur, s[i]))

\* a reading of the manifest that drops blank lines
SplitLinesSkipBlank(s) == SelectSeq(SplitFrom(s, 1, <<>>), LAMBDA x : x # <<>>)

SplitLines(s) == SplitFrom(s, 1, <<>>)

\* random.seed(n) for an integer n: the generator state is a function of n
SeedState(n) == (n * 3 + 1) % RngMod

\* one step of the generator; the result of a draw is a function of the new state
RngStep(g) == (g * 5 + 3) % RngMod

\* random.randint(a, b): a value in a..b, both ends included; an empty range
\* raises ValueError
RandInt(g, a, b) ==
    IF b < a THEN [ok |-> FALSE, rng |-> g, val |-> a]
    ELSE [ok |-> TRUE, rng |-> RngStep(g),
          val |-> a + ((RngStep(g) \div 2) % (b - a + 1))]

\* numpy broadcasting of a value of shape src into a destination of shape dst
\* (assignment strips leading axes of length 1 from a source of higher rank)
RECURSIVE StripOnes(_, _)
StripOnes(src, n) ==
    IF Len(src) > n /\ src[1] = 1 THEN StripOnes(Tail(src), n) ELSE src

Broadcastable(src, dst) ==
    LET s == StripOnes(src, Len(dst))
        off == Len(dst) - Len(s)
    IN  /\ off >= 0
        /\ \A k \in 1..Len(s) : s[k] = dst[k + off] \/ s[k] = 1

\* np.array(im): height x width for a one-channel image, else height x width x channels
ArrayShape(file, stem) ==
    IF file.channels = 1 THEN SampleSize(stem)
    ELSE Append(SampleSize(stem), file.channels)

(* ----------------------------- handlers -------------------------------- *)

\* setup without its check of the bottom blobs
SlotErrorTopsOnly(ntop, nbottom) ==
    IF ntop # 2 THEN "Exception: Need to define two tops" ELSE ""

\* the two checks of the declared blobs: "" when both pass
SlotError(ntop, nbottom) ==
    IF ntop # 2 THEN "Exception: Need to define two tops"
    ELSE IF nbottom # 0 THEN "Exception: Do not define a bottom"
    ELSE ""

\* setup without `if 'train' not in self.split: self.random = False`
UseRandomAsConfigured(split, randomize) == ParamsGet(randomize, TRUE)

\* self.random after `params.get('randomize', True)` and `make eval deterministic`
UseRandom(split, randomize) ==
    IF ~Contains(split, Train) THEN FALSE ELSE ParamsGet(randomize, TRUE)

\* a draw whose upper end is len(self.indices)
DrawIndexUpToLen(g, n) == RandInt(g, 0, n)

\* random.randint(0, len(self.indices)-1)
DrawIndex(g, n) == RandInt(g, 0, n - 1)

\* setup(self, bottom, top): the layer and the generator after the call.
\* `file` is what lies at <maindir>/GDI/<split>.txt; `entropy` is the state
\* random.seed(None) takes from the operating system.
SetupResult(self, g, split, randomize, seed, ntop, nbottom, file, entropy) ==
    LET cfg == [self EXCEPT !.ntop = ntop, !.nbottom = nbottom,
                            !.split = split,
                            !.random = ParamsGet(randomize, TRUE),
                            !.seed = seed]
        loaded == [cfg EXCEPT !.opened = TRUE,
                              !.indices = SplitLines(file.content),
                              !.idx = 0,
                              !.random = UseRandom(split, randomize)]
        seeded == IF seed = None THEN entropy ELSE SeedState(seed)
        draw == DrawIndex(seeded, Len(loaded.indices))
    IN  IF SlotError(ntop, nbottom) # ""
        THEN [self |-> [cfg EXCEPT !.pc = "failed", !.err = SlotError(ntop, nbottom)],
              rng |-> g]
        ELSE IF ~file.exists
        THEN [self |-> [cfg EXCEPT !.pc = "failed", !.err = "IOError", !.opened = TRUE],
              rng |-> g]
        ELSE IF ~loaded.random
        THEN [self |-> [loaded EXCEPT !.pc = "ready", !.err = ""], rng |-> g]
        ELSE IF ~draw.ok
        THEN [self |-> [loaded EXCEPT !.pc = "failed", !.err = "ValueError"],
              rng |-> seeded]
        ELSE [self |-> [loaded EXCEPT !.pc = "ready", !.err = "", !.idx = draw.val,
                                      !.ndraw = 1],
              rng |-> draw.rng]

\* load_image(self, idx): the array, or the exception raised
LoadImage(file, stem) ==
    IF ~file.exists THEN [err |-> "IOError", arr |-> NoArray]
    ELSE IF Len(ArrayShape(file, stem)) # 3 THEN [err |-> "IndexError", arr |-> NoArray]
    ELSE IF ~Broadcastable(<<3>>, ArrayShape(file, stem))
    THEN [err |-> "ValueError", arr |-> NoArray]
    ELSE [err |-> "",
          arr |-> [set |-> TRUE, id |-> stem,
                   shape |-> <<ArrayShape(file, stem)[3], ArrayShape(file, stem)[1],
                               ArrayShape(file, stem)[2]>>]]

\* load_label(self, idx): the array with its leading axis, or the exception raised
LoadLabel(file, stem) ==
    IF ~file.exists THEN [err |-> "IOError", arr |-> NoArray]
    ELSE [err |-> "",
          arr |-> [set |-> TRUE, id |-> stem, shape |-> <<1>> \o ArrayShape(file, stem)]]

\* reshape(self, bottom, top); img and lbl are the files found for the sample
ReshapeResult(self, img, lbl) ==
    IF self.idx + 1 > Len(self.indices) THEN self
    ELSE
    LET stem == self.indices[self.idx + 1]
        im == LoadImage(img, stem)
        lb == LoadLabel(lbl, stem)
    IN  IF im.err # "" THEN self
        ELSE IF lb.err # "" THEN [self EXCEPT !.data = im.arr]
        ELSE [self EXCEPT !.data = im.arr, !.label = lb.arr,
                   !.top = <<<<1>> \o im.arr.shape, <<1>> \o lb.arr.shape>>]

\* a sequential step that wraps one position late
NextIdxWrapLate(idx, n) ==
    IF idx = n THEN 0 ELSE idx + 1

\* the sequential step of the cursor: self.idx += 1, back to 0 at the end
NextIdx(idx, n) ==
    IF idx + 1 = n THEN 0 ELSE idx + 1

\* forward(self, bottom, top): the layer and the generator after the call
ForwardResult(self, g) ==
    LET draw == DrawIndex(g, Len(self.indices))
        wrote0 == [self EXCEPT !.out[1] = [written |-> TRUE, id |-> self.data.id]]
        wrote1 == [wrote0 EXCEPT !.out[2] = [written |-> TRUE, id |-> self.label.id]]
    IN  IF ~self.data.set THEN [self |-> self, rng |-> g]
        ELSE IF ~Broadcastable(self.data.shape, self.top[1])
        THEN [self |-> self, rng |-> g]
        ELSE IF ~self.label.set THEN [self |-> wrote0, rng |-> g]
        ELSE IF ~Broadcastable(self.label.shape, self.top[2])
        THEN [self |-> wrote0, rng |-> g]
        ELSE IF self.random
        THEN IF ~draw.ok THEN [self |-> wrote1, rng |-> g]
             ELSE [self |-> [wrote1 EXCEPT !.idx = draw.val, !.nfwd = @ + 1,
                                           !.ndraw = @ + 1],
                   rng |-> draw.rng]
        ELSE [self |-> [wrote1 EXCEPT !.nfwd = @ + 1,
                                      !.idx = NextIdx(self.idx, Len(self.indices))],
              rng |-> g]

\* a backward that moves the cursor on
BackwardAdvances(self) ==
    [self EXCEPT !.idx = NextIdx(self.idx, Len(self.indices))]

\* backward(self, top, propagate_down, bottom): pass
BackwardResult(self) == self

\* a threshold that lets the value 255*2/3 itself through
BinarizeInclusive(v) == v * 3 >= MaxPixel * 2

\* load_label's value for one pixel v of the uint8 array: label > 255.0*2/3
Binarize(v) == v * 3 > MaxPixel * 2

\* load_label's value for one pixel: a boolean (as 0/1), or the quotient v/255.0
LabelValue(bin, v) ==
    IF bin
    THEN [set |-> TRUE, dtype |-> "bool", num |-> IF Binarize(v) THEN 1 ELSE 0, den |-> 1]
    ELSE [set |-> TRUE, dtype |-> "float64", num |-> v, den |-> MaxPixel]

NoValue == [set |-> FALSE, dtype |-> "", num |-> 0, den |-> 1]

(* ------------------------------ actions -------------------------------- *)

SetupWith(l, splits, randomizes, seeds, ntops, nbottoms) ==
    /\ layer[l].pc = "new"
    /\ \E split \in splits, randomize \in randomizes, seed \in seeds,
          ntop \in ntops, nbottom \in nbottoms, entropy \in RngStates :
          LET r == SetupResult(layer[l], rng, split, randomize, seed, ntop, nbottom,
                               manifest, entropy)
          IN  /\ layer' = [layer EXCEPT ![l] = r.self]
              /\ rng' = r.rng
    /\ UNCHANGED <<manifest, px, binarize, lab>>

ReshapeWith(l, images, labels) ==
    /\ layer[l].pc = "ready"
    /\ \E img \in images, lbl \in labels :
          layer' = [layer EXCEPT ![l] = ReshapeResult(layer[l], img, lbl)]
    /\ UNCHANGED <<rng, manifest, px, binarize, lab>>

Setup(l) == SetupWith(l, Splits, RandomizeOpts, SeedOpts, 0..MaxTops, 0..MaxBottoms)

Reshape(l) == ReshapeWith(l, ImageFiles, LabelFiles)

Forward(l) ==
    /\ layer[l].pc = "ready"
    /\ layer[l].nfwd < MaxSteps
    /\ LET r == ForwardResult(layer[l], rng)
       IN  /\ layer' = [layer EXCEPT ![l] = r.self]
           /\ rng' = r.rng
    /\ UNCHANGED <<manifest, px, binarize, lab>>

Backward(l) ==
    /\ layer[l].pc = "ready"
    /\ layer' = [layer EXCEPT ![l] = BackwardResult(layer[l])]
    /\ UNCHANGED <<rng, manifest, px, binarize, lab>>

\* One layer instance in the process: a layer is set up only while no other is.
Alone(l) == \A m \in Layers \ {l} : layer[m].pc = "new"

\* The generator is as the import of `random` left it; setup seeds it before
\* the first draw, so this value is never read.
Init ==
    /\ layer = [l \in Layers |-> NewLayer]
    /\ rng = 0
    /\ manifest \in ManifestFiles
    /\ px = 0
    /\ binarize = FALSE
    /\ lab = NoValue

Next ==
    \E l \in Layers :
        \/ Alone(l) /\ Setup(l)
        \/ Reshape(l)
        \/ Forward(l)
        \/ Backward(l)

\* A process that holds one layer of either class, over any files.
Spec == Init /\ [][Next]_vars

(* Two layers in one process (the train net's and the test net's), both    *)
(* configured for random order with an integer seed; their image and       *)
(* label files are all well-formed.                                        *)

GoodImages == {[exists |-> TRUE, channels |-> 3]}
GoodLabels == {[exists |-> TRUE, channels |-> 1]}

SetupPair(l) == SetupWith(l, {Train}, {"True", "absent"}, Seeds, {2}, {0})

ReshapePair(l) == ReshapeWith(l, GoodImages, GoodLabels)

InitPair ==
    /\ layer = [l \in Layers |-> NewLayer]
    /\ rng = 0
    /\ manifest \in ManifestFiles \ {NoFile}
    /\ px = 0
    /\ binarize = FALSE
    /\ lab = NoValue

NextPair ==
    \E l \in Layers :
        \/ SetupPair(l)
        \/ ReshapePair(l)
        \/ Forward(l)
        \/ Backward(l)

SpecPair == InitPair /\ [][NextPair]_vars

(* load_label applied to one pixel of the label image, for every value of  *)
(* an unsigned 8-bit pixel and both settings of `binarize`.                *)

LoadLabelPixel ==
    /\ ~lab.set
    /\ lab' = LabelValue(binarize, px)
    /\ UNCHANGED <<layer, rng, manifest, px, binarize>>

InitLabel ==
    /\ layer = [l \in Layers |-> NewLayer]
    /\ rng = 0
    /\ manifest = NoFile
    /\ px \in 0..MaxPixel
    /\ binarize \in BOOLEAN
    /\ lab = NoValue

NextLabel == LoadLabelPixel

SpecLabel == InitLabel /\ [][NextLabel]_vars

(* ---------------------------- properties ------------------------------- *)

Ready(l) == layer[l].pc = "ready"
Count(l) == Len(layer[l].indices)
Sequential(l) == Ready(l) /\ ~layer[l].random

\* C1: in sequential mode over a manifest of N >= 1 entries the cursor after
\* k completed forward calls is k mod N: the positions used are 0, 1, ...,
\* N-1, 0, 1, ... in that order, none skipped or repeated within a cycle.
C1_SequentialOrder ==
    \A l \in Layers :
        (Sequential(l) /\ Count(l) >= 1) => layer[l].idx = layer[l].nfwd % Count(l)

\* a sequential layer over three entries that has gone round once: 0, 1, 2, 0, 1
C1_Witness ==
    \E l \in Layers :
        Sequential(l) /\ Count(l) = 3 /\ layer[l].nfwd = 4 /\ layer[l].idx = 1

\* C2: when the split name does not contain "train", randomization is off
\* after setup and in every later state, the cursor starts at 0 and no random
\* draw is made by setup or forward, whatever `randomize` was given.
C2_EvalNeverRandom ==
    \A l \in Layers :
        (Ready(l) /\ ~Contains(layer[l].split, Train)) =>
            /\ ~layer[l].random
            /\ layer[l].ndraw = 0
            /\ (layer[l].nfwd = 0 => layer[l].idx = 0)

\* a layer of a split without "train" that has completed forward calls
C2_Witness ==
    \E l \in Layers :
        /\ Ready(l) /\ ~Contains(layer[l].split, Train)
        /\ layer[l].nfwd >= 2 /\ layer[l].ndraw = 0

\* C3: two layers in random mode with the same integer seed and the same
\* manifest have the same sequence of cursor positions: after the same
\* number of completed forward calls their cursors are equal.
C3_SeededRunsAgree ==
    \A l, m \in Layers :
        ( /\ Ready(l) /\ Ready(m)
          /\ layer[l].random /\ layer[m].random
          /\ layer[l].seed # None /\ layer[l].seed = layer[m].seed
          /\ layer[l].indices = layer[m].indices
          /\ layer[l].nfwd = layer[m].nfwd )
        => layer[l].idx = layer[m].idx

SlotErrors == {"Exception: Need to define two tops", "Exception: Do not define a bottom"}

\* C4: setup succeeds only with exactly two tops and no bottom; with any other
\* declaration it raises its configuration error before the manifest is
\* opened and before the cursor is set.
C4_SetupChecksSlots ==
    \A l \in Layers :
        layer[l].pc # "new" =>
            IF layer[l].ntop = 2 /\ layer[l].nbottom = 0
            THEN layer[l].err \notin SlotErrors
            ELSE /\ layer[l].pc = "failed"
                 /\ layer[l].err \in SlotErrors
                 /\ ~layer[l].opened
                 /\ layer[l].idx = NoAttr
                 /\ layer[l].indices = <<>>

\* a setup with two tops and one bottom that failed before opening the manifest
C4_Witness ==
    \E l \in Layers :
        /\ layer[l].pc = "failed" /\ layer[l].ntop = 2 /\ layer[l].nbottom = 1
        /\ layer[l].err = "Exception: Do not define a bottom" /\ ~layer[l].opened

\* C5: with binarize on, a label pixel v in 0..255 becomes true exactly when
\* v >= 171 (v > 255*2/3), and the result is a boolean, 0 or 1.
C5_BinarizeThreshold ==
    (lab.set /\ binarize) =>
        /\ lab.dtype = "bool"
        /\ lab.den = 1
        /\ lab.num \in {0, 1}
        /\ (lab.num = 1 <=> px >= 171)

\* the largest pixel value that binarizes to false
C5_Witness == lab.set /\ binarize /\ px = 170 /\ lab.num = 0

RECURSIVE JoinLines(_)
JoinLines(lines) ==
    IF lines = <<>> THEN <<>>
    ELSE IF Len(lines) = 1 THEN lines[1]
    ELSE lines[1] \o <<NL>> \o JoinLines(Tail(lines))

EndsWithNL(s) == s # <<>> /\ s[Len(s)] = NL

\* C6 (as stated): after setup the index list is exactly the non-empty lines
\* of the manifest, in file order, and holds no empty string.
C6_OnlyNonEmptyLines ==
    \A l \in Layers :
        Ready(l) =>
            /\ \A i \in 1..Count(l) : layer[l].indices[i] # <<>>
            /\ layer[l].indices =
                   SelectSeq(SplitFrom(manifest.content, 1, <<>>), LAMBDA x : x # <<>>)

\* C6 (amended): after setup the index list is every line of the manifest, in
\* file order, blank lines included as empty entries: no entry holds a line
\* break, the entries joined by line breaks give back the content (less one
\* line break at its end), and there is one entry per line.
C6_EveryLine ==
    \A l \in Layers :
        Ready(l) =>
            /\ \A i \in 1..Count(l) : ~Contains(layer[l].indices[i], <<NL>>)
            /\ JoinLines(layer[l].indices) =
                   IF EndsWithNL(manifest.content)
                   THEN SubSeq(manifest.content, 1, Len(manifest.content) - 1)
                   ELSE manifest.content
            /\ Count(l) =
                   Cardinality({i \in 1..Len(manifest.content) : manifest.content[i] = NL})
                   + (IF manifest.content = <<>> \/ EndsWithNL(manifest.content)
                      THEN 0 ELSE 1)

\* a manifest with a blank line between two entries, kept as an empty entry
C6_Witness ==
    \E l \in Layers :
        Ready(l) /\ layer[l].indices = <<<<"a">>, <<>>, <<"a">>>>

\* C7: reshape raises whenever the label file is missing, unreadable or not
\* single-channel, so the label held and the label shape announced are
\* always (1, H, W) (announced with the batch axis: (1, 1, H, W)).
C7_LabelAlwaysOneChannel ==
    \A l \in Layers :
        /\ layer[l].label.set =>
               layer[l].label.shape = <<1>> \o SampleSize(layer[l].label.id)
        /\ layer[l].top[2] # <<>> => Len(layer[l].top[2]) = 4

\* C8: after setup the cursor changes only in a step that completes a forward
\* call, no step changes the index list, and whatever reshape loads is the
\* sample at the unchanged cursor.
C8_CursorFrame ==
    [][\A l \in Layers :
          Ready(l) =>
              /\ layer'[l].indices = layer[l].indices
              /\ layer'[l].idx # layer[l].idx => layer'[l].nfwd = layer[l].nfwd + 1
              /\ layer'[l].nfwd # layer[l].nfwd => layer'[l].nfwd = layer[l].nfwd + 1
              /\ layer'[l].data # layer[l].data =>
                     /\ layer'[l].idx = layer[l].idx
                     /\ layer'[l].data.id = layer[l].indices[layer[l].idx + 1]]_vars

\* a reshape that failed after loading the image, following a completed step,
\* with the cursor where that step's forward left it
C8_Witness ==
    \E l \in Layers :
        /\ Sequential(l) /\ Count(l) >= 2 /\ layer[l].nfwd = 1 /\ layer[l].idx = 1
        /\ layer[l].data.set /\ layer[l].label.set
        /\ layer[l].data.id = layer[l].indices[2]
        /\ layer[l].label.id = layer[l].indices[1]
        /\ layer[l].data.id # layer[l].label.id

\* C9: after a successful setup over N >= 1 entries the cursor is in 0..N-1
\* in every state, in sequential and in random mode.
C9_CursorInRange ==
    \A l \in Layers :
        (Ready(l) /\ Count(l) >= 1) =>
            (0 <= layer[l].idx /\ layer[l].idx <= Count(l) - 1)

\* a random-mode layer whose forward drew the last position
C9_Witness ==
    \E l \in Layers :
        /\ Ready(l) /\ layer[l].random /\ Count(l) = 3
        /\ layer[l].nfwd >= 1 /\ layer[l].idx = 2

\* C10: the image and the label a layer holds, and the pair forward wrote to
\* the two top blobs, come from the same sample identifier in every state.
C10_PairFromOneSample ==
    \A l \in Layers :
        /\ (layer[l].data.set /\ layer[l].label.set) =>
               layer[l].data.id = layer[l].label.id
        /\ (layer[l].out[1].written /\ layer[l].out[2].written) =>
               layer[l].out[1].id = layer[l].out[2].id

====
